---- MODULE Spec2Model ----
(***************************************************************************)
(* Model of the patrolling-agents repository: the spatial primitives of    *)
(* utils/utils.py and the learners of sim/agents.py.                       *)
(*                                                                         *)
(* SpecDist : calls of get_distance_between / distance_enemies_around.     *)
(* Spec     : one agent of a population (AgentDQN, AgentMADQN or           *)
(*            AgentMADDPG): construction, draw_action, update, learn.      *)
(***************************************************************************)
EXTENDS Integers, Sequences, FiniteSets, TLC

VARIABLES
    geo_op,        \* utils.py function called last ("none" before any call)
    position_1,    \* get_distance_between: first argument / agent.position
    position_2,    \* get_distance_between: second argument
    dist_ret,      \* value returned by get_distance_between
    enemy_agent,   \* distance_enemies_around: the reference agent
    enemy_agents,  \* distance_enemies_around: the other agents, in order
    enemy_max,     \* distance_enemies_around: max_distance (NoneArg = default)
    enemies_ret,   \* list returned by distance_enemies_around
    geo_raised,    \* exception that ended the call ("" when it returned)
    cls,               \* class of the agent: AgentDQN, AgentMADQN or AgentMADDPG
    idx,               \* position of the agent in the population (from 0)
    update_type,       \* agent_config.update_type
    update_frequency,  \* agent_config.update_frequency
    DDQN,              \* config.learning.DDQN
    gumbel_softmax,    \* config.learning.gumbel_softmax
    status,            \* "new" before __init__, then "ready", or "failed"
    policy_net,        \* parameters of AgentDQN.policy_net
    target_net,        \* parameters of AgentDQN.target_net
    policy_critic,     \* parameters of the agent's policy_critic
    target_critic,     \* parameters of the agent's target_critic
    policy_actor,      \* parameters of the agent's policy_actor
    target_actor,      \* parameters of the agent's target_actor
    others,            \* target actors owned by the other agents of the population
    n_iter,            \* self.n_iter
    steps_done,        \* self.steps_done
    last_op,           \* method of the agent called last
    raised,            \* exception that ended that call ("" when it returned)
    draw,              \* arguments, branch and result of the last draw_action
    upd,               \* arguments of the last update and the target before it
    lrn                \* batch and tensors of the last learn call

geo_vars == <<geo_op, position_1, position_2, dist_ret, enemy_agent,
              enemy_agents, enemy_max, enemies_ret, geo_raised>>

config_vars == <<cls, idx, update_type, update_frequency, DDQN, gumbel_softmax>>
net_vars == <<policy_net, target_net, policy_critic, target_critic,
              policy_actor, target_actor>>
call_vars == <<last_op, raised, draw, upd, lrn>>
agent_vars == <<config_vars, status, net_vars, others, n_iter, steps_done, call_vars>>

vars == <<geo_vars, agent_vars>>

-----------------------------------------------------------------------------
(* Bounds of the geometric model *)

BoardW == 3
BoardH == 2
MaxOthers == 2
MaxViewRadius == 2
\* depth at which the interpreter gives up a recursion (RecursionError)
RecursionLimit == 5

limit_board == <<BoardW, BoardH>>
Positions == (0 .. BoardW - 1) \X (0 .. BoardH - 1)

\* max_distance=None
NoneArg == -1
\* result marker of a recursion that exceeded RecursionLimit
RecursionError == -1

Abs(n) == IF n < 0 THEN -n ELSE n
Max2(a, b) == IF a >= b THEN a ELSE b

-----------------------------------------------------------------------------
(* utils/utils.py *)

\* possible_directions: the list built by the eight guarded appends
possible_directions(limit, position) ==
    LET lim_x == limit[1]
        lim_y == limit[2]
        x == position[1]
        y == position[2]
        left == IF x > 0
                THEN <<<<x - 1, y>>>>
                     \o (IF y > 0 THEN <<<<x - 1, y - 1>>>> ELSE <<>>)
                     \o (IF y < lim_y - 1 THEN <<<<x - 1, y + 1>>>> ELSE <<>>)
                ELSE <<>>
        down == IF y > 0 THEN <<<<x, y - 1>>>> ELSE <<>>
        right == IF x < lim_x - 1
                 THEN <<<<x + 1, y>>>>
                      \o (IF y > 0 THEN <<<<x + 1, y - 1>>>> ELSE <<>>)
                      \o (IF y < lim_y - 1 THEN <<<<x + 1, y + 1>>>> ELSE <<>>)
                 ELSE <<>>
        up == IF y < lim_y - 1 THEN <<<<x, y + 1>>>> ELSE <<>>
    IN left \o down \o right \o up

InList(e, l) == \E k \in 1 .. Len(l) : l[k] = e

\* the cell get_distance_between recurses on: one step from position_1
\* along the sign of position_2 - position_1 (position_1 itself when equal)
step_towards(p1, p2) ==
    LET x == p1[1]
        y == p1[2]
        x_2 == p2[1]
        y_2 == p2[2]
    IN IF x < x_2
       THEN (IF y < y_2 THEN <<x + 1, y + 1>>
             ELSE IF y = y_2 THEN <<x + 1, y>>
             ELSE <<x + 1, y - 1>>)
       ELSE IF x = x_2
       THEN (IF y < y_2 THEN <<x, y + 1>>
             ELSE IF y > y_2 THEN <<x, y - 1>>
             ELSE <<x, y>>)
       ELSE (IF y < y_2 THEN <<x - 1, y + 1>>
             ELSE IF y = y_2 THEN <<x - 1, y>>
             ELSE <<x - 1, y - 1>>)

\* get_distance_between at recursion depth `depth`; RecursionError when the
\* recursion does not reach a neighbour of position_2 within RecursionLimit
RECURSIVE distance_at_depth(_, _, _, _)
distance_at_depth(limit, p1, p2, depth) ==
    IF depth > RecursionLimit
    THEN RecursionError
    ELSE IF InList(p1, possible_directions(limit, p2))
    THEN 1
    ELSE LET rest == distance_at_depth(limit, step_towards(p1, p2), p2, depth + 1)
         IN IF rest = RecursionError THEN RecursionError ELSE 1 + rest

get_distance_between(limit, p1, p2) == distance_at_depth(limit, p1, p2, 1)

\* distance_enemies_around: the loop over agents, one iteration per element;
\* RecursionError as soon as a distance computation raises
RECURSIVE enemies_loop(_, _, _, _)
enemies_loop(agent, agents, max_distance, k) ==
    IF k > Len(agents)
    THEN <<>>
    ELSE LET other_agent == agents[k]
             is_enemy == \/ (agent.type = "target" /\ other_agent.type = "officer")
                         \/ (agent.type = "officer" /\ other_agent.type = "target")
             dist_agents == get_distance_between(limit_board, agent.position,
                                                 other_agent.position)
         IN IF is_enemy /\ dist_agents = RecursionError
            THEN <<RecursionError>>
            ELSE LET rest == enemies_loop(agent, agents, max_distance, k + 1)
                 IN IF rest = <<RecursionError>>
                    THEN rest
                    ELSE IF is_enemy /\ dist_agents <= max_distance
                    THEN <<dist_agents>> \o rest
                    ELSE rest

distance_enemies_around(agent, agents, max_distance) ==
    enemies_loop(agent, agents,
                 IF max_distance = NoneArg THEN agent.view_radius ELSE max_distance,
                 1)

\* the types Agent.__init__ accepts, and the ones distance_enemies_around tests
ConstructorTypes == {"prey", "predator"}
TypeNames == ConstructorTypes \cup {"target", "officer"}

GeoAgents == [type : TypeNames, position : Positions, view_radius : {MaxViewRadius}]

SeqsUpTo(S, n) == UNION {[1 .. m -> S] : m \in 0 .. n}

\* no call of utils.py pending or made
GeoIdle ==
    /\ geo_op = "none"
    /\ position_1 = <<0, 0>>
    /\ position_2 = <<0, 0>>
    /\ dist_ret = 0
    /\ enemy_agent = [type |-> "prey", position |-> <<0, 0>>,
                       view_radius |-> MaxViewRadius]
    /\ enemy_agents = <<>>
    /\ enemy_max = NoneArg
    /\ enemies_ret = <<>>
    /\ geo_raised = ""

\* the arguments of one call, drawn from the board; geo_op names the callee
GeoInit ==
    /\ dist_ret = 0
    /\ enemies_ret = <<>>
    /\ geo_raised = ""
    /\ \/ /\ geo_op = "call get_distance_between"
          /\ position_1 \in Positions
          /\ position_2 \in Positions
          /\ enemy_agent = [type |-> "prey", position |-> <<0, 0>>,
                             view_radius |-> MaxViewRadius]
          /\ enemy_agents = <<>>
          /\ enemy_max = NoneArg
       \/ /\ geo_op = "call distance_enemies_around"
          /\ position_1 = <<0, 0>>
          /\ position_2 = <<0, 0>>
          /\ enemy_agent \in GeoAgents
          /\ enemy_agents \in SeqsUpTo(GeoAgents, MaxOthers)
          /\ enemy_max \in {NoneArg} \cup (0 .. MaxViewRadius)

CallGetDistance ==
    /\ geo_op = "call get_distance_between"
    /\ LET d == get_distance_between(limit_board, position_1, position_2)
       IN /\ geo_op' = "get_distance_between"
          /\ dist_ret' = IF d = RecursionError THEN 0 ELSE d
          /\ geo_raised' = IF d = RecursionError THEN "RecursionError" ELSE ""
    /\ UNCHANGED <<position_1, position_2, enemy_agent, enemy_agents,
                   enemy_max, enemies_ret>>
    /\ UNCHANGED agent_vars

CallDistanceEnemies ==
    /\ geo_op = "call distance_enemies_around"
    /\ LET r == distance_enemies_around(enemy_agent, enemy_agents, enemy_max)
       IN /\ geo_op' = "distance_enemies_around"
          /\ enemies_ret' = IF r = <<RecursionError>> THEN <<>> ELSE r
          /\ geo_raised' = IF r = <<RecursionError>> THEN "RecursionError" ELSE ""
    /\ UNCHANGED <<position_1, position_2, dist_ret, enemy_agent, enemy_agents,
                   enemy_max>>
    /\ UNCHANGED agent_vars

-----------------------------------------------------------------------------
(* sim/agents.py: configuration, networks and tensors *)

\* Bounds of the agent model
MaxParam == 1
MaxFreq == 2
MaxIter == 3
MaxSteps == 2
\* action values are residues modulo QMod
QMod == 3
\* probabilities are counted in units of 1/EpsScale
EpsScale == 4

\* config.agents.number_predators + config.agents.number_preys
NAgents == 2
\* config.learning.batch_size
BatchSize == 2
\* Agent.__init__: 7 if config.env.world_3D else 5 (the 2D world)
number_actions == 5
\* agent_config.gamma = GammaNum / GammaDen
GammaNum == 9
GammaDen == 10
\* the epsilon schedule of agent_config, in units of 1/EpsScale
EPS_START == 3
EPS_END == 1
EPS_DECAY == 2
\* config.learning.tau = TauNum / TauDen
TauNum == 1
TauDen == 2

AgentIds == 0 .. NAgents - 1
Params == 0 .. MaxParam
\* an observation is one binary feature, a reward is 0 or 1
Obs == {0, 1}
Rewards == {0, 1}
Actions == 0 .. number_actions - 1
Rows == 1 .. BatchSize
Classes == {"AgentDQN", "AgentMADQN", "AgentMADDPG"}

RECURSIVE SumSeq(_)
SumSeq(v) == IF v = <<>> THEN 0 ELSE v[1] + SumSeq(Tail(v))

\* the approximators (DQNUnit, DQNActor) are opaque to the learners: a
\* deterministic function of the parameters and of the input vector
Checksum(v) == SumSeq([k \in 1 .. Len(v) |-> k * v[k]])
Forward(theta, x) == [k \in Actions |-> (theta + Checksum(x) * (k + 1)) % QMod]

MaxOf(row) == CHOOSE m \in {row[k] : k \in DOMAIN row} :
                  \A k \in DOMAIN row : row[k] <= m

\* np.argmax / Tensor.max(1)[1]: the first index of the maximum
argmax(row) == LET m == MaxOf(row)
               IN CHOOSE k \in DOMAIN row :
                      row[k] = m /\ \A j \in DOMAIN row : j < k => row[j] < m

\* math.exp(-1. * steps_done / EPS_DECAY), in units of 1/EpsScale
RECURSIVE exp_decay(_)
exp_decay(t) == IF t = 0 THEN EpsScale
                ELSE (exp_decay(t - 1) * EPS_DECAY) \div (EPS_DECAY + 1)

eps_after_increment(t) ==
    EPS_END + ((EPS_START - EPS_END) * exp_decay(t + 1)) \div EpsScale
eps_threshold(t) == EPS_END + ((EPS_START - EPS_END) * exp_decay(t)) \div EpsScale

-----------------------------------------------------------------------------
(* Agent.update and the update methods of the three classes *)

hard_update(target, policy) == [raised |-> "", target |-> policy]

soft_update_pass(c, target, policy) ==
    IF c = "AgentDQN"
    THEN [raised |-> "", target |-> target]
    ELSE [raised |-> "",
          target |-> (target * TauNum + policy * (TauDen - TauNum)) \div TauDen]
soft_update(c, target, policy) ==
    IF c = "AgentDQN"
    THEN [raised |-> "NotImplementedError", target |-> target]
    ELSE [raised |-> "",
          target |-> (target * TauNum + policy * (TauDen - TauNum)) \div TauDen]

Agent_update(c, ut, target, policy) ==
    IF ut = "hard" THEN hard_update(target, policy)
    ELSE IF ut = "soft" THEN soft_update(c, target, policy)
    ELSE [raised |-> "", target |-> target]

NoDraw == [state |-> <<>>, no_exploration |-> FALSE, branch |-> "",
           action |-> 0, eps_threshold |-> 0]
NoUpd == [pair |-> "", pre_target |-> 0]
NoLrn == [next_state_batch |-> <<>>, reward_batch |-> <<>>,
          actions_by_cal |-> <<>>, target_actions |-> <<>>]

\* the agent variables while only utils.py is exercised
AgentIdle ==
    /\ cls = "AgentDQN" /\ idx = 0 /\ update_type = "hard" /\ update_frequency = 1
    /\ DDQN = FALSE /\ gumbel_softmax = FALSE /\ status = "new"
    /\ policy_net = 0 /\ target_net = 0 /\ policy_critic = 0 /\ target_critic = 0
    /\ policy_actor = 0 /\ target_actor = 0
    /\ others = [a \in AgentIds |-> 0]
    /\ n_iter = 0 /\ steps_done = 0
    /\ last_op = "" /\ raised = "" /\ draw = NoDraw /\ upd = NoUpd /\ lrn = NoLrn

\* the configuration the agent is constructed with; nothing constructed yet
AgentInit ==
    /\ cls \in Classes
    /\ idx \in (IF cls = "AgentDQN" THEN {0} ELSE AgentIds)
    /\ update_type \in {"hard", "soft", "none"}
    /\ update_frequency \in (IF cls = "AgentDQN" THEN 1 .. MaxFreq ELSE {1})
    /\ DDQN \in (IF cls = "AgentDQN" THEN BOOLEAN ELSE {FALSE})
    /\ gumbel_softmax \in (IF cls = "AgentMADDPG" THEN BOOLEAN ELSE {FALSE})
    /\ status = "new"
    /\ policy_net = 0 /\ target_net = 0 /\ policy_critic = 0 /\ target_critic = 0
    /\ policy_actor = 0 /\ target_actor = 0
    /\ others \in [AgentIds -> Params]
    /\ \A a \in AgentIds : (a = idx \/ cls = "AgentDQN") => others[a] = 0
    /\ n_iter = -1 /\ steps_done = -1
    /\ last_op = "" /\ raised = "" /\ draw = NoDraw /\ upd = NoUpd /\ lrn = NoLrn

\* Agent.__init__ (the two assertions) followed by the subclass constructor
Construct ==
    /\ status = "new"
    /\ last_op' = "__init__"
    /\ draw' = NoDraw /\ upd' = NoUpd /\ lrn' = NoLrn
    /\ UNCHANGED <<config_vars, others, geo_vars>>
    /\ IF update_type \notin {"hard", "soft"}
       THEN /\ status' = "failed"
            /\ raised' = "AssertionError"
            /\ UNCHANGED <<net_vars, n_iter, steps_done>>
       ELSE \E p1 \in Params, t1 \in Params, p2 \in Params, t2 \in Params :
            CASE cls = "AgentDQN" ->
                   LET u == Agent_update(cls, update_type, t1, p1)
                   IN /\ raised' = u.raised
                      /\ status' = IF u.raised = "" THEN "ready" ELSE "failed"
                      /\ policy_net' = p1
                      /\ target_net' = u.target
                      /\ n_iter' = IF u.raised = "" THEN 0 ELSE n_iter
                      /\ steps_done' = IF u.raised = "" THEN 0 ELSE steps_done
                      /\ UNCHANGED <<policy_critic, target_critic,
                                     policy_actor, target_actor>>
              [] cls = "AgentMADQN" ->
                   LET u == Agent_update(cls, update_type, t1, p1)
                   IN /\ raised' = ""
                      /\ status' = "ready"
                      /\ policy_critic' = p1
                      /\ target_critic' = u.target
                      /\ policy_actor' = p2
                      /\ target_actor' = t2
                      /\ n_iter' = 0
                      /\ steps_done' = 0
                      /\ UNCHANGED <<policy_net, target_net>>
              [] cls = "AgentMADDPG" ->
                   LET uc == Agent_update(cls, update_type, t1, p1)
                       ua == Agent_update(cls, update_type, t2, p2)
                   IN /\ raised' = ""
                      /\ status' = "ready"
                      /\ policy_critic' = p1
                      /\ target_critic' = uc.target
                      /\ policy_actor' = p2
                      /\ target_actor' = ua.target
                      /\ n_iter' = 0
                      /\ steps_done' = 0
                      /\ UNCHANGED <<policy_net, target_net>>

\* the (target, policy) pairs a caller can pass to update
Pairs == IF cls = "AgentDQN" THEN {"net"} ELSE {"critic", "actor"}
TargetOf(pair) == CASE pair = "net" -> target_net
                    [] pair = "critic" -> target_critic
                    [] pair = "actor" -> target_actor
PolicyOf(pair) == CASE pair = "net" -> policy_net
                    [] pair = "critic" -> policy_critic
                    [] pair = "actor" -> policy_actor

\* a call agent.update(target, policy) on one of the agent's pairs
Update ==
    /\ status = "ready"
    /\ \E pair \in Pairs :
         LET u == Agent_update(cls, update_type, TargetOf(pair), PolicyOf(pair))
         IN /\ last_op' = "update"
            /\ raised' = u.raised
            /\ upd' = [pair |-> pair, pre_target |-> TargetOf(pair)]
            /\ target_net' = IF pair = "net" THEN u.target ELSE target_net
            /\ target_critic' = IF pair = "critic" THEN u.target ELSE target_critic
            /\ target_actor' = IF pair = "actor" THEN u.target ELSE target_actor
    /\ draw' = NoDraw /\ lrn' = NoLrn
    /\ UNCHANGED <<config_vars, status, policy_net, policy_critic, policy_actor,
                   others, n_iter, steps_done, geo_vars>>

-----------------------------------------------------------------------------
(* draw_action of the three classes *)

ObsVectors == {<<o>> : o \in Obs}

\* the network draw_action evaluates
ActingNet == IF cls = "AgentDQN" THEN policy_net ELSE policy_actor

\* AgentDQN.draw_action and AgentMADQN.draw_action: the branch taken and the
\* actions it can return, for a random draw p
epsilon_greedy(state, no_exploration, p, threshold) ==
    IF no_exploration \/ p > threshold
    THEN [branch |-> "exploit", actions |-> {argmax(Forward(ActingNet, state))}]
    ELSE [branch |-> "random", actions |-> Actions]

\* AgentMADDPG.draw_action
maddpg_gumbel_first(state, no_exploration, p, threshold) ==
    IF gumbel_softmax
    THEN [branch |-> "gumbel", actions |-> Actions]
    ELSE epsilon_greedy(state, no_exploration, p, threshold)
maddpg_choice(state, no_exploration, p, threshold) ==
    IF no_exploration
    THEN [branch |-> "forced", actions |-> {argmax(Forward(policy_actor, state))}]
    ELSE IF gumbel_softmax
    THEN [branch |-> "gumbel", actions |-> Actions]
    ELSE epsilon_greedy(state, no_exploration, p, threshold)

DrawAction ==
    /\ status = "ready"
    /\ steps_done < MaxSteps
    /\ \E state \in ObsVectors, no_exploration \in BOOLEAN, p \in 0 .. EpsScale - 1 :
         LET threshold == eps_threshold(steps_done)
             c == IF cls = "AgentMADDPG"
                  THEN maddpg_choice(state, no_exploration, p, threshold)
                  ELSE epsilon_greedy(state, no_exploration, p, threshold)
         IN \E action \in c.actions :
              draw' = [state |-> state, no_exploration |-> no_exploration,
                       branch |-> c.branch, action |-> action,
                       eps_threshold |-> threshold]
    /\ steps_done' = steps_done + 1
    /\ last_op' = "draw_action"
    /\ raised' = ""
    /\ upd' = NoUpd /\ lrn' = NoLrn
    /\ UNCHANGED <<config_vars, status, net_vars, others, n_iter, geo_vars>>

-----------------------------------------------------------------------------
(* Tensors: a 1-D tensor is a sequence of numbers, a 2-D tensor a sequence *)
(* of rows; rank tells them apart where an operation broadcasts.           *)

\* Tensor.reshape(size(0), 1) and Tensor.unsqueeze(1): shape (B,) to (B, 1)
as_column(v) == [i \in 1 .. Len(v) |-> <<v[i]>>]

\* Tensor.gather(1, index) with an index of shape (B, 1)
gather(mat, index) == [i \in 1 .. Len(mat) |-> <<mat[i][index[i][1]]>>]

\* Tensor.max(1)[0] and Tensor.max(1)[1]: shape (B, A) to (B,)
max_values(mat) == [i \in 1 .. Len(mat) |-> MaxOf(mat[i])]
max_indices(mat) == [i \in 1 .. Len(mat) |-> argmax(mat[i])]

\* broadcasting aligns shapes from the last dimension: (B,) counts as (1, B)
as_2d(rank, data) == IF rank = 1 THEN <<data>> ELSE data

\* x + gamma * y on 2-D tensors with broadcasting, in units of 1/GammaDen
add_discounted(x, y) ==
    LET rows == IF Len(x) = 1 THEN Len(y) ELSE Len(x)
        cols == IF Len(x[1]) = 1 THEN Len(y[1]) ELSE Len(x[1])
        at(t, i, j) == t[IF Len(t) = 1 THEN 1 ELSE i][IF Len(t[1]) = 1 THEN 1 ELSE j]
    IN [i \in 1 .. rows |->
          [j \in 1 .. cols |-> at(x, i, j) * GammaDen + GammaNum * at(y, i, j)]]

JointObs == [AgentIds -> Obs]

-----------------------------------------------------------------------------
(* AgentDQN.learn *)

\* the bootstrap values of the batch and their rank
Qsa_prime_targets(policy, target, next_state_batch) ==
    LET target_out == [i \in Rows |-> Forward(target, next_state_batch[i])]
    IN IF DDQN
       THEN LET actions_next ==
                    as_column(max_indices(
                        [i \in Rows |-> Forward(policy, next_state_batch[i])]))
            IN [rank |-> 2, data |-> gather(target_out, actions_next)]
       ELSE [rank |-> 1, data |-> max_values(target_out)]

\* not self.n_iter % self.update_frequency
sync_late(n, frequency) == (n + 1) % frequency = 0
sync_every_call(n, frequency) == TRUE
sync_due(n, frequency) == ~(n % frequency # 0)

\* the optimizer step moves the policy parameters along the clipped gradient
\* of the loss: any parameter value can result
LearnDQN ==
    /\ status = "ready"
    /\ cls = "AgentDQN"
    /\ n_iter < MaxIter
    /\ \E next_state_batch \in [Rows -> ObsVectors], rewards \in [Rows -> Rewards] :
         LET reward_batch == as_column(rewards)
             q == Qsa_prime_targets(policy_net, target_net, next_state_batch)
             actions_by_cal == add_discounted(reward_batch, as_2d(q.rank, q.data))
         IN lrn' = [next_state_batch |-> next_state_batch,
                    reward_batch |-> rewards,
                    actions_by_cal |-> actions_by_cal,
                    target_actions |-> <<>>]
    /\ \E stepped \in Params :
         LET u == IF sync_due(n_iter, update_frequency)
                  THEN Agent_update(cls, update_type, target_net, stepped)
                  ELSE [raised |-> "", target |-> target_net]
         IN /\ policy_net' = stepped
            /\ target_net' = u.target
            /\ raised' = u.raised
            /\ n_iter' = IF u.raised = "" THEN n_iter + 1 ELSE n_iter
    /\ last_op' = "learn"
    /\ draw' = NoDraw /\ upd' = NoUpd
    /\ UNCHANGED <<config_vars, status, policy_critic, target_critic, policy_actor,
                   target_actor, others, steps_done, geo_vars>>

-----------------------------------------------------------------------------
(* AgentMADQN.learn, AgentMADDPG.learn_critic, AgentMADDPG.learn_actor *)

\* the list the caller passes: every agent's target actor, the agent's own
\* at position idx
target_actors == [a \in AgentIds |->
                     IF a = idx THEN target_actor ELSE others[a]]

\* AgentMADQN.soft_update / AgentMADDPG.soft_update called directly
soft_mix_skipped(target, policy) == target
soft_mix(target, policy) == soft_update(cls, target, policy).target

\* the actors of the other agents as the caller holds them (position idx is
\* the agent's own target_actor, kept in target_actor)
others_of(actors) == [a \in AgentIds |-> IF a = idx THEN 0 ELSE actors[a]]

\* soft_update(self.target_actor, self.policy_actor) writes its result in
\* place into self.target_actor, the element at position idx of the list the
\* caller passes: the list afterwards
soft_update_every_actor(mixed) == [a \in AgentIds |-> mixed]
actors_after_soft_update(mixed) ==
    [a \in AgentIds |-> IF a = idx THEN mixed ELSE target_actors[a]]

\* AgentMADDPG.__init__: the parameters each of the two optimizers holds
one_optimizer_for_both == {"policy_critic", "policy_actor"}
critic_optimizer == {"policy_critic"}
actor_optimizer == {"policy_actor"}

\* Optimizer.step(): the values a network's parameters can have afterwards;
\* a network the optimizer does not hold keeps its parameters
optimizer_step(optimizer, name, current) ==
    IF name \in optimizer THEN Params ELSE {current}

\* AgentMADQN.learn: the target actions and the two critic values make the
\* loss, which reaches the parameters only through the optimizer step: any
\* value of policy_critic can result, policy_actor receives no gradient;
\* then the two soft updates
LearnMADQN ==
    /\ status = "ready"
    /\ cls = "AgentMADQN"
    /\ \E stepped \in Params :
         /\ policy_critic' = stepped
         /\ target_critic' = soft_mix(target_critic, stepped)
    /\ LET actors == actors_after_soft_update(soft_mix(target_actor, policy_actor))
       IN /\ target_actor' = actors[idx]
          /\ others' = others_of(actors)
    /\ last_op' = "learn"
    /\ raised' = ""
    /\ draw' = NoDraw /\ upd' = NoUpd /\ lrn' = NoLrn
    /\ UNCHANGED <<config_vars, status, policy_net, target_net, policy_actor,
                   n_iter, steps_done, geo_vars>>

\* AgentMADDPG.learn_critic: the target actions, the optimizer step on the
\* critic (any value of policy_critic can result), the soft update
LearnCritic ==
    /\ status = "ready"
    /\ cls = "AgentMADDPG"
    /\ \E next_state_batch \in [Rows -> JointObs] :
         LET next_state_batch_idx == [i \in Rows |-> <<next_state_batch[i][idx]>>]
             target_actions ==
                 [a \in AgentIds |->
                     max_indices([i \in Rows |->
                         Forward(target_actors[a], next_state_batch_idx[i])])]
         IN lrn' = [next_state_batch |-> next_state_batch,
                    reward_batch |-> <<>>,
                    actions_by_cal |-> <<>>,
                    target_actions |-> target_actions]
    /\ \E stepped \in optimizer_step(critic_optimizer, "policy_critic", policy_critic) :
         /\ policy_critic' = stepped
         /\ target_critic' = soft_mix(target_critic, stepped)
    /\ policy_actor' \in optimizer_step(critic_optimizer, "policy_actor", policy_actor)
    /\ last_op' = "learn_critic"
    /\ raised' = ""
    /\ draw' = NoDraw /\ upd' = NoUpd
    /\ UNCHANGED <<config_vars, status, policy_net, target_net,
                   target_actor, others, n_iter, steps_done, geo_vars>>

\* AgentMADDPG.learn_actor: the optimizer step on the actor (any value of
\* policy_actor can result), the soft update
LearnActor ==
    /\ status = "ready"
    /\ cls = "AgentMADDPG"
    /\ \E stepped \in optimizer_step(actor_optimizer, "policy_actor", policy_actor) :
         LET actors == actors_after_soft_update(soft_mix(target_actor, stepped))
         IN /\ lrn' = NoLrn
            /\ policy_actor' = stepped
            /\ target_actor' = actors[idx]
            /\ others' = others_of(actors)
    /\ policy_critic' \in optimizer_step(actor_optimizer, "policy_critic", policy_critic)
    /\ last_op' = "learn_actor"
    /\ raised' = ""
    /\ draw' = NoDraw /\ upd' = NoUpd
    /\ UNCHANGED <<config_vars, status, policy_net, target_net,
                   target_critic, n_iter, steps_done, geo_vars>>

InitDist == GeoInit /\ AgentIdle
NextDist == CallGetDistance \/ CallDistanceEnemies
SpecDist == InitDist /\ [][NextDist]_vars

Init == GeoIdle /\ AgentInit
Next == \/ Construct
        \/ Update
        \/ DrawAction
        \/ LearnDQN
        \/ LearnMADQN
        \/ LearnCritic
        \/ LearnActor
Spec == Init /\ [][Next]_vars

-----------------------------------------------------------------------------
(* Claims about the distance metric *)

Chebyshev(a, b) == Max2(Abs(a[1] - b[1]), Abs(a[2] - b[2]))

\* C1: for all positions a and b within the board bounds,
\* get_distance_between(bounds, a, b) returns max(|ax-bx|, |ay-by|).
C1_DistanceIsChebyshev ==
    geo_op = "get_distance_between" =>
        /\ geo_raised = ""
        /\ dist_ret = Chebyshev(position_1, position_2)

\* C2: for every position a within the board bounds,
\* get_distance_between(bounds, a, a) terminates and returns 0.
C2_DistanceToSelfIsZero ==
    (geo_op = "get_distance_between" /\ position_1 = position_2) =>
        /\ geo_raised = ""
        /\ dist_ret = 0

Faction(type) == IF type \in {"predator", "officer"} THEN "officer" ELSE "target"

RECURSIVE OpponentDistances(_, _, _, _)
OpponentDistances(agent, agents, max_distance, k) ==
    IF k > Len(agents)
    THEN <<>>
    ELSE LET d == Chebyshev(agent.position, agents[k].position)
             rest == OpponentDistances(agent, agents, max_distance, k + 1)
         IN IF Faction(agents[k].type) # Faction(agent.type) /\ d <= max_distance
            THEN <<d>> \o rest
            ELSE rest

\* C3: for agents whose type the Agent constructor accepts, a call of
\* distance_enemies_around(agent, others, max_distance) that returns, returns
\* in the order of others the distance to every agent of the opposing faction
\* (predator/officer versus prey/target) within max_distance, and nothing else.
C3_EnemiesAreOpposingFaction ==
    (/\ geo_op = "distance_enemies_around"
     /\ geo_raised = ""
     /\ enemy_agent.type \in ConstructorTypes
     /\ \A k \in 1 .. Len(enemy_agents) : enemy_agents[k].type \in ConstructorTypes) =>
        enemies_ret = OpponentDistances(
                          enemy_agent, enemy_agents,
                          IF enemy_max = NoneArg THEN enemy_agent.view_radius
                          ELSE enemy_max,
                          1)

-----------------------------------------------------------------------------
(* Claims about the learners *)

\* the first index at which a row of action values is maximal
FirstMaximal(row) ==
    CHOOSE k \in DOMAIN row :
        /\ \A j \in DOMAIN row : row[j] <= row[k]
        /\ \A j \in DOMAIN row : j < k => row[j] # row[k]

\* tau * target + (1 - tau) * policy on the parameter grid
Interpolated(target, policy) ==
    (TauNum * target + (TauDen - TauNum) * policy) \div TauDen

\* Q_target of batch row i of an AgentDQN.learn call, from the networks
\* policy and target the call starts with
RowBootstrap(policy, target, next_state) ==
    LET target_row == Forward(target, next_state)
        policy_row == Forward(policy, next_state)
    IN IF DDQN
       THEN target_row[FirstMaximal(policy_row)]
       ELSE target_row[FirstMaximal(target_row)]

\* C4: in AgentDQN.learn the regression target of every batch row i is
\* exactly reward[i] + gamma * Q_target[i] (in units of 1/GammaDen), in
\* double-Q and in standard mode; no other row enters row i's target.
C4_TargetIsRowwise ==
    [][ (last_op' = "learn" /\ cls = "AgentDQN") =>
            /\ Len(lrn'.actions_by_cal) = BatchSize
            /\ \A i \in Rows :
                  lrn'.actions_by_cal[i] =
                      <<lrn'.reward_batch[i] * GammaDen
                        + GammaNum * RowBootstrap(policy_net, target_net,
                                                  lrn'.next_state_batch[i])>> ]_vars

\* C5 as stated: in hard mode, immediately after exactly update_frequency
\* learn calls since construction the target network equals the policy network.
C5_SyncedAfterFrequencyCalls ==
    (/\ cls = "AgentDQN" /\ update_type = "hard"
     /\ last_op = "learn" /\ n_iter = update_frequency) =>
        target_net = policy_net

\* C5 amended: in hard mode, immediately after a learn call whose number,
\* counted from 0, is a multiple of update_frequency (the first call, and the
\* call that makes update_frequency + 1 calls since construction) the target
\* network equals the policy network.
C5_SyncedAfterMultipleOfFrequency ==
    (/\ cls = "AgentDQN" /\ update_type = "hard"
     /\ last_op = "learn" /\ (n_iter - 1) % update_frequency = 0) =>
        target_net = policy_net

C5_Witness ==
    /\ cls = "AgentDQN" /\ update_type = "hard" /\ last_op = "learn"
    /\ update_frequency = 2 /\ n_iter = update_frequency + 1
    /\ target_net = policy_net

\* C6: steps_done is 0 after construction, grows by exactly 1 on every
\* draw_action whatever branch is taken, is changed by no other operation,
\* and the call made with k earlier calls computes epsilon with t = k, so the
\* first call uses EPS_START.
C6_StepCounter ==
    [][ /\ (last_op' = "__init__" /\ status' = "ready") => steps_done' = 0
        /\ last_op' = "draw_action" =>
              /\ steps_done' = steps_done + 1
              /\ draw'.eps_threshold =
                     EPS_END + ((EPS_START - EPS_END) * exp_decay(steps_done))
                                   \div EpsScale
              /\ steps_done = 0 => draw'.eps_threshold = EPS_START
        /\ last_op' \notin {"__init__", "draw_action"} => steps_done' = steps_done
      ]_vars

C6_Witness ==
    /\ last_op = "draw_action"
    /\ steps_done = 2
    /\ draw.branch = "gumbel"
    /\ draw.eps_threshold < EPS_START

\* C7: draw_action called with no_exploration true never takes the random
\* or the Gumbel branch and returns the first index at which the output of
\* the policy approximator on the observation is maximal.
C7_NoExplorationExploits ==
    (last_op = "draw_action" /\ draw.no_exploration) =>
        /\ draw.branch \notin {"random", "gumbel"}
        /\ draw.action = FirstMaximal(Forward(ActingNet, draw.state))

C7_Witness ==
    /\ last_op = "draw_action" /\ draw.no_exploration
    /\ cls = "AgentMADDPG" /\ gumbel_softmax
    /\ draw.eps_threshold = EPS_START
    /\ draw.action # 0

\* C8: update runs hard_update in hard mode (the target equals the policy
\* afterwards) and soft_update in soft mode (the target is interpolated);
\* for AgentDQN in soft mode the call, made by the constructor, fails with
\* NotImplementedError; no agent exists whose update would return without
\* running one of the two.
C8_UpdateDispatch ==
    /\ status = "ready" => update_type \in {"hard", "soft"}
    /\ (status = "ready" /\ cls = "AgentDQN") => update_type = "hard"
    /\ (last_op = "__init__" /\ cls = "AgentDQN" /\ update_type = "soft") =>
          /\ raised = "NotImplementedError"
          /\ status = "failed"
    /\ (last_op = "update" /\ update_type = "hard") =>
          /\ raised = ""
          /\ TargetOf(upd.pair) = PolicyOf(upd.pair)
    /\ (last_op = "update" /\ update_type = "soft") =>
          /\ raised = ""
          /\ TargetOf(upd.pair) = Interpolated(upd.pre_target, PolicyOf(upd.pair))

C8_Witness ==
    /\ last_op = "__init__" /\ cls = "AgentDQN" /\ update_type = "soft"
    /\ raised = "NotImplementedError"

\* C9 as stated: AgentMADQN.learn leaves the parameters of target_critic and
\* target_actor unchanged.
C9_LearnLeavesTargets ==
    [][ (last_op' = "learn" /\ cls = "AgentMADQN") =>
            /\ target_critic' = target_critic
            /\ target_actor' = target_actor ]_vars

\* C9 amended: AgentMADQN.learn ends with a soft update of both targets,
\* whatever update_type is: target_actor becomes tau * target_actor +
\* (1 - tau) * policy_actor and target_critic becomes tau * target_critic +
\* (1 - tau) * policy_critic, the critic being the one the optimizer stepped.
C9_LearnSoftUpdatesTargets ==
    [][ (last_op' = "learn" /\ cls = "AgentMADQN") =>
            /\ target_critic' = Interpolated(target_critic, policy_critic')
            /\ target_actor' = Interpolated(target_actor, policy_actor') ]_vars

C9_Witness ==
    /\ last_op = "learn" /\ cls = "AgentMADQN" /\ update_type = "hard"
    /\ target_critic # policy_critic
    /\ target_actor = policy_actor

\* C10: in AgentMADDPG.learn_critic the target action of every agent a is
\* the arg-max of target_actors[a] on agent a's own next-state slice.
C10_TargetActionOnOwnSlice ==
    last_op = "learn_critic" =>
        \A a \in AgentIds :
            lrn.target_actions[a] =
                [i \in Rows |->
                    FirstMaximal(Forward(target_actors[a],
                                         <<lrn.next_state_batch[i][a]>>))]

\* learn_critic evaluates every target actor on the slice of agent idx
C10_CodeUsesSliceOfIdx ==
    last_op = "learn_critic" =>
        \A a \in AgentIds :
            lrn.target_actions[a] =
                [i \in Rows |->
                    FirstMaximal(Forward(target_actors[a],
                                         <<lrn.next_state_batch[i][idx]>>))]

\* C11: a call of AgentMADQN.learn, AgentMADDPG.learn_critic or
\* AgentMADDPG.learn_actor on agent idx changes the parameters of no network
\* owned by another agent; learn_critic evaluates the target actors of the
\* other agents (their target actions are the first maxima of their outputs).
C11_OtherAgentsReadOnly ==
    [][ (/\ cls \in {"AgentMADQN", "AgentMADDPG"}
         /\ last_op' \in {"learn", "learn_critic", "learn_actor"}) =>
            /\ \A a \in AgentIds \ {idx} : others'[a] = others[a]
            /\ last_op' = "learn_critic" =>
                  \A a \in AgentIds \ {idx} :
                      lrn'.target_actions[a] =
                          [i \in Rows |->
                              FirstMaximal(Forward(others[a],
                                  <<lrn'.next_state_batch[i][idx]>>))] ]_vars

\* a learn call has soft-updated the agent's own target actor to 0 while the
\* target actor of another agent keeps the parameters MaxParam
C11_Witness ==
    /\ last_op \in {"learn", "learn_actor"}
    /\ target_actor = 0
    /\ policy_actor = 0
    /\ \E a \in AgentIds \ {idx} : others[a] = MaxParam

\* C12: for an AgentDQN in hard update mode n_iter is 0 after construction
\* and grows by exactly 1 per learn call; the learn call made with n_iter = k
\* leaves the target network equal to the policy network as the optimizer
\* step of that call left it if k is a multiple of update_frequency, and
\* leaves the target network as it was otherwise; draw_action, the only
\* other operation of the training loop, does not change the target network.
C12_HardSyncSchedule ==
    [][ (cls = "AgentDQN" /\ update_type = "hard") =>
            /\ (last_op' = "__init__" /\ status' = "ready") => n_iter' = 0
            /\ last_op' = "learn" =>
                  /\ raised' = ""
                  /\ n_iter' = n_iter + 1
                  /\ n_iter % update_frequency = 0 => target_net' = policy_net'
                  /\ n_iter % update_frequency # 0 => target_net' = target_net
            /\ last_op' = "draw_action" =>
                  /\ target_net' = target_net
                  /\ n_iter' = n_iter ]_vars

\* the second learn call (k = 1) with update_frequency 2 stepped the policy
\* away from the target and copied nothing
C12_Witness ==
    /\ cls = "AgentDQN" /\ update_type = "hard" /\ last_op = "learn"
    /\ update_frequency = 2 /\ n_iter = 2
    /\ target_net # policy_net

\* C13: for an AgentMADDPG, learn_critic leaves policy_actor and target_actor
\* unchanged and soft-updates target_critic from the policy_critic it
\* stepped; learn_actor leaves policy_critic and target_critic unchanged and
\* soft-updates target_actor from the policy_actor it stepped; once the agent
\* is constructed, a target network changes only to the parameters of its
\* own policy counterpart (hard) or to their interpolation with its own
\* previous parameters (soft).
C13_SeparateCriticAndActor ==
    [][ cls = "AgentMADDPG" =>
            /\ last_op' = "learn_critic" =>
                  /\ policy_actor' = policy_actor
                  /\ target_actor' = target_actor
                  /\ target_critic' = Interpolated(target_critic, policy_critic')
            /\ last_op' = "learn_actor" =>
                  /\ policy_critic' = policy_critic
                  /\ target_critic' = target_critic
                  /\ target_actor' = Interpolated(target_actor, policy_actor')
            /\ (status = "ready" /\ target_critic' # target_critic) =>
                  target_critic' \in {policy_critic',
                                      Interpolated(target_critic, policy_critic')}
            /\ (status = "ready" /\ target_actor' # target_actor) =>
                  target_actor' \in {policy_actor',
                                     Interpolated(target_actor, policy_actor')} ]_vars

\* learn_critic has stepped the critic away from its interpolated target
\* while the actor pair, not yet synchronized, stays apart
C13_Witness ==
    /\ cls = "AgentMADDPG" /\ update_type = "soft" /\ last_op = "learn_critic"
    /\ policy_critic # target_critic
    /\ policy_actor # target_actor

\* C14: right after the construction of an agent in hard update mode every
\* target network it owns equals its policy counterpart: target_net =
\* policy_net for AgentDQN, target_critic = policy_critic and target_actor =
\* policy_actor for AgentMADQN and AgentMADDPG.
C14_TargetsEqualAfterConstruction ==
    (last_op = "__init__" /\ status = "ready" /\ update_type = "hard") =>
        IF cls = "AgentDQN"
        THEN target_net = policy_net
        ELSE /\ target_critic = policy_critic
             /\ target_actor = policy_actor

\* the same for the two classes whose constructor synchronizes every pair
C14_HoldsForDQNAndMADDPG ==
    (/\ last_op = "__init__" /\ status = "ready" /\ update_type = "hard"
     /\ cls # "AgentMADQN") =>
        IF cls = "AgentDQN"
        THEN target_net = policy_net
        ELSE /\ target_critic = policy_critic
             /\ target_actor = policy_actor

====
